---- MODULE Spec2Model ----
(***************************************************************************)
(* Model of Download/mhzx_downloader.py: MhzxDownloader.produce, the       *)
(* per-article coroutine process_single, the two JSON store files written  *)
(* by save(), the two text exports written by save_as_txt, and the helpers *)
(* they use: the decorator async_retry and the barcode decoder             *)
(* _process_qr_image, each with a specification of its own.                *)
(*                                                                         *)
(* Text (names, addresses, passwords) is a sequence of chunks; a chunk is  *)
(* a piece of text that the program's string tests never split: a digit,   *)
(* the part marker, the domain marker "pan.baidu.com", the credential      *)
(* marker "?pwd=", or any other piece of text.  The part marker of the     *)
(* source is written "_part" here.  Python's None is the empty option      *)
(* << >>, a string value s is the option << s >>.                          *)
(***************************************************************************)
EXTENDS Naturals, Sequences, FiniteSets

\* ---------------------------------------------------------------- bounds

MaxConcurrent == 2
MaxBatch == 2
MaxButtons == 2
MaxAttempts == 3
ExportLen == 2

\* ------------------------------------------------------ program constants

max_retries == 3

\* async_retry's defaults, in tenths of a second
base_delay == 10
max_delay == 100

\* ------------------------------------------------------------------ text

Digits == <<"0", "1", "2", "3", "4", "5", "6", "7", "8", "9">>

IsDigit(c) == \E i \in 1..10 : Digits[i] = c

RECURSIVE FormatInt(_)
FormatInt(n) ==
    IF n < 10 THEN <<Digits[n + 1]>>
    ELSE FormatInt(n \div 10) \o <<Digits[(n % 10) + 1]>>

PartMark == "_part"
BaiduMark == "pan.baidu.com"
PwdMark == "?pwd="

\* `sub in text` for a one-chunk needle
Contains(text, chunk) == \E i \in 1..Len(text) : text[i] = chunk

\* the positions at which the pattern _part\d+$ matches
PartSuffixAt(name) ==
    {i \in 1..Len(name) :
        /\ name[i] = PartMark
        /\ i < Len(name)
        /\ \A j \in (i + 1)..Len(name) : IsDigit(name[j])}

\* re.sub(r"_part\d+$", "", name)
StripPartSuffix(name) ==
    IF PartSuffixAt(name) = {} THEN name
    ELSE LET i == CHOOSE k \in PartSuffixAt(name) :
                      \A m \in PartSuffixAt(name) : k <= m
         IN  SubSeq(name, 1, i - 1)

None == << >>
Some(s) == << s >>
\* Python truth of an optional string: neither None nor ""
Truthy(opt) == opt # None /\ opt[1] # << >>

Range(seq) == {seq[i] : i \in 1..Len(seq)}


\* ------------------------------------------------------- inputs (bounded)

NameA == <<"A">>
NameAPart1 == <<"A", PartMark, "1">>

\* ArticleRef {name, url} entries an articles file may list
ArticleA == [name |-> NameA, url |-> <<"https://www.mhh1.com/", "1", ".html">>]
ArticleAPart1 ==
    [name |-> NameAPart1, url |-> <<"https://www.mhh1.com/", "2", ".html">>]
Articles == {ArticleA, ArticleAPart1}

\* the articles files of a batch run: A, A_part1, A, ... cut at any length
Batches ==
    {[i \in 1..n |-> IF i % 2 = 1 THEN ArticleA ELSE ArticleAPart1] :
        n \in 1..MaxBatch}

UrlBaidu == <<"https://", BaiduMark, "/s/", "x">>
UrlBaiduPwd == <<"https://", BaiduMark, "/s/", "x", PwdMark, "k">>
UrlOther == <<"https://", "example.com", "/f/", "y">>
UrlImage == <<"https://", "example.com", "/q/", "z", ".PNG">>

\* What the remote site shows: the addresses a per-button popup may have,
\* the values the two password inputs may hold (None: the input is absent)
\* what decode_qr_async may return for a barcode image, and how many download
\* buttons a page may show at most.
SiteOneKind ==
    [urls |-> {UrlOther},
     download_pwds |-> {None},
     extract_pwds |-> {None},
     decoded |-> {None},
     buttons |-> 1]

SiteAllKinds ==
    [urls |-> {UrlBaidu, UrlBaiduPwd, UrlOther, UrlImage},
     download_pwds |-> {None, Some(<< >>), Some(<<"pw">>)},
     extract_pwds |-> {None, Some(<<"xp">>)},
     decoded |-> {None, Some(UrlBaidu)},
     buttons |-> MaxButtons]

\* ----------------------------------------------------- record building

url_name_from_zero(name, count, url_index) ==
    IF count > 1 THEN name \o <<PartMark>> \o FormatInt(url_index)
    ELSE name

\* url_name of process_single
url_name(name, count, url_index) ==
    IF count > 1 THEN name \o <<PartMark>> \o FormatInt(url_index + 1)
    ELSE name

embed_pwd_unchecked(download_url, pwd) ==
    IF Contains(download_url, BaiduMark) /\ Truthy(pwd)
    THEN download_url \o <<PwdMark>> \o pwd[1]
    ELSE download_url

\* the download_url stored for an address
embed_pwd(download_url, pwd) ==
    IF /\ Contains(download_url, BaiduMark)
       /\ ~Contains(download_url, PwdMark)
       /\ Truthy(pwd)
    THEN download_url \o <<PwdMark>> \o pwd[1]
    ELSE download_url

\* the records process_single appends for one article
new_links(name, article_url, urls, dpwd, epwd) ==
    [i \in 1..Len(urls) |->
        [name |-> url_name(name, Len(urls), i - 1),
         article_url |-> article_url,
         download_url |-> embed_pwd(urls[i], dpwd),
         download_pwd |-> dpwd,
         extract_pwd |-> epwd]]

\* ------------------------------------------------------------ the store

AbsentFile == [exists |-> FALSE, data |-> << >>]

\* a save that reads nothing back
load_existing_nothing(file) == << >>

\* _load_existing_json of save()
load_existing_json(file) == IF file.exists THEN file.data ELSE << >>

\* load_existing_names
load_existing_names(file) ==
    IF ~file.exists THEN {}
    ELSE {StripPartSuffix(file.data[i].name) :
             i \in {j \in 1..Len(file.data) : file.data[j].name # << >>}}

is_pan_baidu_article(link) == Contains(link.article_url, BaiduMark)

\* the test of save() that sends a link to the primary-storage store
is_pan_baidu(link) == Contains(link.download_url, BaiduMark)

is_not_pan_baidu(link) == ~is_pan_baidu(link)

\* the two files after save()
saved_pan_baidu(file, ls) ==
    IF ls = << >> THEN file
    ELSE [exists |-> TRUE,
          data |-> load_existing_json(file) \o SelectSeq(ls, is_pan_baidu)]

saved_no_pan_baidu_all(file, ls) ==
    IF ls = << >> THEN file
    ELSE [exists |-> TRUE, data |-> load_existing_json(file) \o ls]

saved_no_pan_baidu(file, ls) ==
    IF ls = << >> THEN file
    ELSE [exists |-> TRUE,
          data |-> load_existing_json(file) \o SelectSeq(ls, is_not_pan_baidu)]

\* the filter of produce()
is_new_item(item, pan_names, no_pan_names) ==
    ~(item.name \in pan_names \/ item.name \in no_pan_names)

items_to_process(data, pan_file, no_pan_file) ==
    LET pan_names == load_existing_names(pan_file)
        no_pan_names == load_existing_names(no_pan_file)
        keep(item) == is_new_item(item, pan_names, no_pan_names)
    IN  SelectSeq(data, keep)

\* ------------------------------------------------------ barcode addresses

\* self.image_extensions
image_extensions ==
    {".jpg", ".jpeg", ".png", ".gif", ".bmp", ".tiff", ".webp", ".svg"}

\* str.lower on a chunk
Lower(chunk) ==
    CASE chunk = ".PNG" -> ".png"
      [] chunk = ".JPG" -> ".jpg"
      [] OTHER -> chunk

\* is_image_url: the extension is looked for anywhere in the address
is_image_url(url) ==
    /\ url # << >>
    /\ \E i \in 1..Len(url) : Lower(url[i]) \in image_extensions

resolved_or_nothing(address, decoded) ==
    IF Truthy(decoded) THEN decoded[1] ELSE << >>

\* if decoded_url: popup_url = decoded_url
resolved_url(address, decoded) ==
    IF Truthy(decoded) THEN decoded[1] ELSE address

\* the loop goes on with the next button, or past the loop
next_button(remaining) == IF remaining > 1 THEN "button" ELSE "close_main"

on_button_failure_abort(remaining) == "finally_close"

\* except Exception ... continue, of the button loop
on_button_failure(remaining) == next_button(remaining)

\* ------------------------------------------------------------ save_as_txt

AbsentTxt == [exists |-> FALSE, lines |-> << >>]

\* an export file before the call: absent, or left by an earlier call
StaleTxt == {AbsentTxt, [exists |-> TRUE, lines |-> << <<"old">> >>]}

\* url_list and extract_pwd of save_as_txt
url_list(data) == [i \in 1..Len(data) |-> data[i].download_url]

extract_pwd_set(data) == {data[i].extract_pwd : i \in 1..Len(data)}

\* the orders in which the iteration of a set may yield its elements
Orders(S) ==
    {order \in [1..Cardinality(S) -> S] :
        \A i, j \in 1..Cardinality(S) : order[i] = order[j] => i = j}

appended_urls(old, urls) ==
    [exists |-> TRUE, lines |-> old.lines \o urls]

\* if url_list: the export is opened for writing and gets one line a url
written_urls(old, urls) ==
    IF urls # << >> THEN [exists |-> TRUE, lines |-> urls] ELSE old

\* if extract_pwd: the export is opened for writing and gets the passwords
\* that are neither None nor ""
written_pwds(old, pwds, order) ==
    IF pwds # {}
    THEN LET kept == SelectSeq(order, Truthy)
         IN  [exists |-> TRUE, lines |-> [i \in 1..Len(kept) |-> kept[i][1]]]
    ELSE old

\* ------------------------------------------------------------ async_retry

RECURSIVE Pow2(_)
Pow2(k) == IF k = 0 THEN 1 ELSE 2 * Pow2(k - 1)

Min(a, b) == IF a < b THEN a ELSE b

\* delay = min(base_delay * (2**attempt), max_delay), in tenths of a second
delay_of(k) == Min(base_delay * Pow2(k), max_delay)

\* delay + random.uniform(-jitter, jitter) with jitter = delay * 0.1: the
\* two ends and the middle of the interval
actual_delays(k) ==
    LET delay == delay_of(k)
        jitter == delay \div 10
    IN  {delay - jitter, delay, delay + jitter}

\* the exception types func may raise; asyncio.CancelledError is a
\* BaseException and no Exception
ExceptionTypes == {"TimeoutError", "ValueError"}
CancelledError == [type |-> "CancelledError", call |-> 0]
TypeError == [type |-> "TypeError", call |-> 0]

retryable_any(error) == TRUE

\* except exceptions as e, with exceptions = (asyncio.TimeoutError, Exception)
retryable(error) == error.type \in ExceptionTypes \cup {"TypeError"}

backoff_always(k, n) == TRUE

\* if attempt < max_retries - 1
backoff_due(k, n) == k + 1 < n

\* ------------------------------------------------------ _process_qr_image

\* the list `methods`, in its order
methods ==
    <<"img_gray", "medianBlur", "adaptiveThreshold", "GaussianBlur_threshold",
      "morphologyEx">>

\* what detector.detectAndDecode does on one preprocessed image: it raises,
\* or returns data, which may be ""
QrRaises == [raised |-> TRUE, data |-> ""]
QrData(data) == [raised |-> FALSE, data |-> data]
DecodeOutcomes == {QrRaises, QrData(""), QrData("t1"), QrData("t2")}

yields_anything(outcome) == ~outcome.raised

\* the try of the loop ends in `return data`
yields_text(outcome) == ~outcome.raised /\ outcome.data # ""

\* the images _process_qr_image may get: bytes that imdecode does not decode
\* (None, or it raises), an image whose preprocessing raises, or an image
\* with the outcome of the detector on each of its preprocessed forms
QrInputs ==
    {[decoded |-> FALSE, prepared |-> FALSE,
      outcome |-> [m \in Range(methods) |-> QrRaises]],
     [decoded |-> TRUE, prepared |-> FALSE,
      outcome |-> [m \in Range(methods) |-> QrRaises]]}
    \cup {[decoded |-> TRUE, prepared |-> TRUE, outcome |-> f] :
             f \in [Range(methods) -> DecodeOutcomes]}

\* ---------------------------------------------------------------- state

VARIABLES
    site,               \* what the remote site shows (never changes)
    articles_file,      \* the articles file (never changes)
    pan_baidu_file,     \* the primary-storage store file
    no_pan_baidu_file,  \* the other store file
    url_txt,            \* the address export, temp/pan_baidu.txt
    pwd_txt,            \* the password export, password.txt
    max_concurrent,     \* the bound the semaphore was built with
    semaphore,          \* free slots of self.semaphore
    links,              \* self.links
    items,              \* items_to_process of the current run
    pc,                 \* where each article task stands
    retry_count,        \* retry_count of each task's innermost call
    download_pwd,       \* per task
    extract_pwd,        \* per task
    buttons,            \* per task: download buttons not yet clicked
    all_download_urls,  \* per task
    popup_url,          \* per task: popup_url of the button in hand
    decoded_url,        \* per task: decoded_url of the button in hand
    pages,              \* per task: the sessions it has open
    cancel,             \* per task: a CancelledError waits at its await
    run_pc,             \* where run() stands
    wrapper_pc,         \* async_retry: where the wrapper stands
    wrapper_max_retries,\* async_retry: its max_retries
    attempt,            \* async_retry: the loop variable
    last_exception,     \* async_retry
    actual_delay,       \* async_retry: of the last sleep begun
    calls,              \* async_retry: invocations of func so far
    slept,              \* async_retry: sleeps begun so far
    wrapper_cancel,     \* async_retry: a CancelledError waits at its await
    wrapper_outcome,    \* async_retry: what left the wrapper
    qr_input,           \* _process_qr_image: the image it was given
    qr_pc,              \* _process_qr_image: where it stands
    qr_index,           \* _process_qr_image: the loop position
    qr_result           \* _process_qr_image: what it returned

store_vars == <<pan_baidu_file, no_pan_baidu_file>>
export_vars == <<url_txt, pwd_txt>>
retry_vars ==
    <<wrapper_pc, wrapper_max_retries, attempt, last_exception, actual_delay,
      calls, slept, wrapper_cancel, wrapper_outcome>>
qr_vars == <<qr_input, qr_pc, qr_index, qr_result>>
run_vars ==
    <<site, articles_file, max_concurrent, items, run_pc, retry_vars, qr_vars>>
task_vars ==
    <<semaphore, links, pc, retry_count, download_pwd, extract_pwd, buttons,
      all_download_urls, popup_url, decoded_url, pages, cancel>>

vars == <<store_vars, export_vars, run_vars, task_vars>>

Tasks == 1..Len(items)

\* how a task ends: process_single returned after its records were appended,
\* it returned after a logged failure, or CancelledError left the task
Terminal == {"done", "failed", "cancelled"}

\* a task that is past `async with self.semaphore` and has not left it
InSemaphore(t) == pc[t] \notin {"queued"} \cup Terminal

\* async_retry and _process_qr_image are not in use
RetryUnused ==
    /\ wrapper_pc = "unused"
    /\ wrapper_max_retries = 0
    /\ attempt = 0
    /\ last_exception = None
    /\ actual_delay = 0
    /\ calls = 0
    /\ slept = 0
    /\ wrapper_cancel = FALSE
    /\ wrapper_outcome = None

QrUnused ==
    /\ qr_input = [decoded |-> FALSE, prepared |-> FALSE,
                   outcome |-> [m \in Range(methods) |-> QrRaises]]
    /\ qr_pc = "unused"
    /\ qr_index = 0
    /\ qr_result = None

\* no run of produce() has begun
NoRun ==
    /\ links = << >>
    /\ items = << >>
    /\ pc = << >>
    /\ retry_count = << >>
    /\ download_pwd = << >>
    /\ extract_pwd = << >>
    /\ buttons = << >>
    /\ all_download_urls = << >>
    /\ popup_url = << >>
    /\ decoded_url = << >>
    /\ pages = << >>
    /\ cancel = << >>

\* the state of a new MhzxDownloader before run()
Constructed ==
    /\ max_concurrent \in 1..MaxConcurrent
    /\ semaphore = max_concurrent
    /\ NoRun
    /\ run_pc = "idle"

\* the records an earlier, completed run accumulated for one article
EarlierLinks ==
    {new_links(a.name, a.url, urls, Some(<<"pw">>), None) :
        a \in Articles, urls \in {<<UrlBaidu>>, <<UrlOther, UrlOther>>}}

\* First use: no store file yet; a batch of articles resolved concurrently.
InitFirstRun ==
    /\ site = SiteOneKind
    /\ articles_file \in Batches
    /\ pan_baidu_file = AbsentFile
    /\ no_pan_baidu_file = AbsentFile
    /\ url_txt = AbsentTxt
    /\ pwd_txt = AbsentTxt
    /\ Constructed

\* A run of one article, over no store files (the exports absent, or left
\* at their paths by an earlier use) or over the store files and exports an
\* earlier run of one article has left.
InitLaterRun ==
    /\ site = SiteAllKinds
    /\ articles_file \in {<<a>> : a \in Articles}
    /\ \/ /\ pan_baidu_file = AbsentFile
          /\ no_pan_baidu_file = AbsentFile
          /\ \E txt \in StaleTxt :
                /\ url_txt = txt
                /\ pwd_txt = txt
       \/ \E ls \in EarlierLinks :
            /\ pan_baidu_file = saved_pan_baidu(AbsentFile, ls)
            /\ no_pan_baidu_file = saved_no_pan_baidu(AbsentFile, ls)
            /\ url_txt = written_urls(AbsentTxt, url_list(pan_baidu_file.data))
            /\ \E order \in Orders(extract_pwd_set(pan_baidu_file.data)) :
                  pwd_txt = written_pwds(AbsentTxt,
                                         extract_pwd_set(pan_baidu_file.data),
                                         order)
    /\ Constructed

Init ==
    /\ InitFirstRun \/ InitLaterRun
    /\ RetryUnused
    /\ QrUnused

\* -------------------------------------------------------------- produce

\* produce() up to asyncio.gather: read the articles file, filter it against
\* the two stores, create one task per remaining article.
StartRun ==
    /\ run_pc = "idle"
    /\ LET todo == items_to_process(articles_file, pan_baidu_file,
                                    no_pan_baidu_file)
       IN  /\ items' = todo
           /\ pc' = [t \in 1..Len(todo) |-> "queued"]
           /\ retry_count' = [t \in 1..Len(todo) |-> 0]
           /\ download_pwd' = [t \in 1..Len(todo) |-> None]
           /\ extract_pwd' = [t \in 1..Len(todo) |-> None]
           /\ buttons' = [t \in 1..Len(todo) |-> 0]
           /\ all_download_urls' = [t \in 1..Len(todo) |-> << >>]
           /\ popup_url' = [t \in 1..Len(todo) |-> None]
           /\ decoded_url' = [t \in 1..Len(todo) |-> None]
           /\ pages' = [t \in 1..Len(todo) |-> {}]
           /\ cancel' = [t \in 1..Len(todo) |-> FALSE]
    /\ run_pc' = "gather"
    /\ UNCHANGED <<store_vars, export_vars, site, articles_file,
                   max_concurrent, semaphore, links, retry_vars, qr_vars>>

\* what a step of one task leaves alone
outside_vars == <<store_vars, export_vars, run_vars, links>>

\* task t is at the await `where` and no cancellation waits for it
At(t, where) == pc[t] = where /\ ~cancel[t]

SemUnbounded(value) == TRUE

\* Semaphore.acquire does not wait
SemFree(value) == value > 0

\* async with self.semaphore: tasks started in input order queue first in,
\* first out
Acquire(t) ==
    /\ run_pc = "gather"
    /\ At(t, "queued")
    /\ \A u \in Tasks : u < t => pc[u] # "queued"
    /\ SemFree(semaphore)
    /\ semaphore' = semaphore - 1
    /\ pc' = [pc EXCEPT ![t] = "open"]
    /\ UNCHANGED <<outside_vars, retry_count, download_pwd, extract_pwd,
                   buttons, all_download_urls, popup_url, decoded_url, pages,
                   cancel>>

\* the call ends and the slot stays taken
LeaveHolding(t, how, closed) ==
    /\ pc' = [pc EXCEPT ![t] = how]
    /\ pages' = [pages EXCEPT ![t] = @ \ closed]
    /\ UNCHANGED semaphore
    /\ retry_count' = [retry_count EXCEPT ![t] = 0]
    /\ buttons' = [buttons EXCEPT ![t] = 0]
    /\ popup_url' = [popup_url EXCEPT ![t] = None]
    /\ decoded_url' = [decoded_url EXCEPT ![t] = None]
    /\ IF how = "done"
       THEN UNCHANGED <<download_pwd, extract_pwd, all_download_urls>>
       ELSE /\ download_pwd' = [download_pwd EXCEPT ![t] = None]
            /\ extract_pwd' = [extract_pwd EXCEPT ![t] = None]
            /\ all_download_urls' = [all_download_urls EXCEPT ![t] = << >>]

\* The call of process_single made by the task ends, with the sessions
\* `closed` closed on the way, and the task leaves `async with
\* self.semaphore`.  The locals of the call are gone; the model keeps what a
\* completed call captured (its ResolutionOutcome).
Leave(t, how, closed) ==
    /\ pc' = [pc EXCEPT ![t] = how]
    /\ pages' = [pages EXCEPT ![t] = @ \ closed]
    /\ semaphore' = semaphore + 1
    /\ retry_count' = [retry_count EXCEPT ![t] = 0]
    /\ buttons' = [buttons EXCEPT ![t] = 0]
    /\ popup_url' = [popup_url EXCEPT ![t] = None]
    /\ decoded_url' = [decoded_url EXCEPT ![t] = None]
    /\ IF how = "done"
       THEN UNCHANGED <<download_pwd, extract_pwd, all_download_urls>>
       ELSE /\ download_pwd' = [download_pwd EXCEPT ![t] = None]
            /\ extract_pwd' = [extract_pwd EXCEPT ![t] = None]
            /\ all_download_urls' = [all_download_urls EXCEPT ![t] = << >>]

\* what an action that does not end the call leaves alone
SameLocals ==
    UNCHANGED <<retry_count, download_pwd, extract_pwd, buttons,
                all_download_urls, popup_url, decoded_url>>

\* a step inside the call that changes no local
Moves(t, where, sessions) ==
    /\ pc' = [pc EXCEPT ![t] = where]
    /\ pages' = [pages EXCEPT ![t] = sessions]
    /\ UNCHANGED semaphore
    /\ SameLocals

\* ------------------------------------------------------- process_single

\* context.new_page() and page.goto(article_url)
OpenPage(t) ==
    /\ At(t, "open")
    /\ \/ Moves(t, "primary", {"article"})
       \/ \* new_page raises: `page` is unbound in the finally clause, the
          \* UnboundLocalError leaves this call and is caught by the caller
          Leave(t, "failed", {})
       \/ \* goto raises: the finally clause closes the page
          Moves(t, "finally_close", {"article"})
    /\ UNCHANGED <<outside_vars, cancel>>

\* the first click: expect_popup, popup_info.value, wait_for_load_state.
\* Once it has succeeded retry_count is never read again; the model forgets
\* it then.
PrimaryClick(t) ==
    /\ At(t, "primary")
    /\ \/ /\ pc' = [pc EXCEPT ![t] = "close_article"]
          /\ pages' = [pages EXCEPT ![t] = {"article", "primary"}]
          /\ retry_count' = [retry_count EXCEPT ![t] = 0]
       \/ \* no popup within the wait (or the click fails): new_page is never
          \* bound, the handler closes `page` and then reads new_page
          /\ pc' = [pc EXCEPT ![t] = "handler_close"]
          /\ UNCHANGED <<pages, retry_count>>
       \/ \* the popup opened and its load wait failed: new_page is bound
          /\ pc' = [pc EXCEPT ![t] = "retry_close"]
          /\ pages' = [pages EXCEPT ![t] = {"article", "primary"}]
          /\ UNCHANGED retry_count
    /\ UNCHANGED <<outside_vars, semaphore, download_pwd, extract_pwd,
                   buttons, all_download_urls, popup_url, decoded_url, cancel>>

\* if retry_count < max_retries
MayRetry(count) == count < max_retries

\* the handler of the first click with new_page bound: close both pages,
\* then sleep before the recursive call, or re-raise
RetryClose(t) ==
    /\ At(t, "retry_close")
    /\ IF MayRetry(retry_count[t])
       THEN Moves(t, "retry_sleep", {})
       ELSE Leave(t, "failed", {"article", "primary"})
    /\ UNCHANGED <<outside_vars, cancel>>

\* asyncio.sleep(2) ends: process_single(..., retry_count + 1, max_retries)
RetrySleep(t) ==
    /\ At(t, "retry_sleep")
    /\ pc' = [pc EXCEPT ![t] = "open"]
    /\ retry_count' = [retry_count EXCEPT ![t] = @ + 1]
    /\ UNCHANGED <<outside_vars, semaphore, download_pwd, extract_pwd,
                   buttons, all_download_urls, popup_url, decoded_url, pages,
                   cancel>>

\* safe_close_page(page); page = new_page
CloseArticle(t) ==
    /\ At(t, "close_article")
    /\ Moves(t, "download_pwd", {"primary"})
    /\ UNCHANGED <<outside_vars, cancel>>

\* the download password input: absent (or the wait fails), or its value
ReadDownloadPwd(t) ==
    /\ At(t, "download_pwd")
    /\ \E v \in site.download_pwds : download_pwd' = [download_pwd EXCEPT ![t] = v]
    /\ pc' = [pc EXCEPT ![t] = "extract_pwd"]
    /\ UNCHANGED <<outside_vars, semaphore, retry_count, extract_pwd, buttons,
                   all_download_urls, popup_url, decoded_url, pages, cancel>>

ReadExtractPwd(t) ==
    /\ At(t, "extract_pwd")
    /\ \E v \in site.extract_pwds : extract_pwd' = [extract_pwd EXCEPT ![t] = v]
    /\ pc' = [pc EXCEPT ![t] = "locate"]
    /\ UNCHANGED <<outside_vars, semaphore, retry_count, download_pwd, buttons,
                   all_download_urls, popup_url, decoded_url, pages, cancel>>

\* page.locator(download_buttons_selector).all()
LocateButtons(t) ==
    /\ At(t, "locate")
    /\ \/ \E n \in 0..site.buttons :
            /\ buttons' = [buttons EXCEPT ![t] = n]
            /\ pc' = [pc EXCEPT ![t] = IF n = 0 THEN "close_main" ELSE "button"]
       \/ \* it raises: the outer handler logs, the finally clause closes
          /\ pc' = [pc EXCEPT ![t] = "finally_close"]
          /\ UNCHANGED buttons
    /\ UNCHANGED <<outside_vars, semaphore, retry_count, download_pwd,
                   extract_pwd, all_download_urls, popup_url, decoded_url,
                   pages, cancel>>

\* one pass of the button loop begins: expect_popup, button.click(),
\* popup_info.value
ClickButton(t) ==
    /\ At(t, "button")
    /\ \/ \* the popup opened
          /\ pc' = [pc EXCEPT ![t] = "popup_load"]
          /\ pages' = [pages EXCEPT ![t] = @ \cup {"popup"}]
          /\ UNCHANGED buttons
       \/ \* the click fails or no popup comes: logged, the loop continues
          /\ pc' = [pc EXCEPT ![t] = on_button_failure(buttons[t])]
          /\ buttons' = [buttons EXCEPT ![t] = @ - 1]
          /\ UNCHANGED pages
    /\ UNCHANGED <<outside_vars, semaphore, retry_count, download_pwd,
                   extract_pwd, all_download_urls, popup_url, decoded_url,
                   cancel>>

\* new_popup_page.wait_for_load_state ends; popup_url = new_popup_page.url;
\* an address that is no image is appended at once
PopupLoad(t) ==
    /\ At(t, "popup_load")
    /\ \/ \E u \in site.urls :
            /\ popup_url' = [popup_url EXCEPT ![t] = Some(u)]
            /\ IF is_image_url(u)
               THEN /\ pc' = [pc EXCEPT ![t] = "decode"]
                    /\ UNCHANGED all_download_urls
               ELSE /\ pc' = [pc EXCEPT ![t] = "popup_close"]
                    /\ all_download_urls' =
                           [all_download_urls EXCEPT ![t] = Append(@, u)]
            /\ UNCHANGED <<buttons, pages>>
       \/ \* the wait fails: logged, the loop continues; nothing closes
          \* new_popup_page
          /\ pc' = [pc EXCEPT ![t] = on_button_failure(buttons[t])]
          /\ buttons' = [buttons EXCEPT ![t] = @ - 1]
          /\ pages' = [pages EXCEPT ![t] =
                          (@ \ {"popup"}) \cup {"abandoned_popup"}]
          /\ UNCHANGED <<all_download_urls, popup_url>>
    /\ UNCHANGED <<outside_vars, semaphore, retry_count, download_pwd,
                   extract_pwd, decoded_url, cancel>>

\* decode_qr_async(popup_url) ends: it returns None when the fetch or the
\* decoding fails (it catches every Exception), or the decoded text
Decode(t) ==
    /\ At(t, "decode")
    /\ \E d \in site.decoded :
        LET url == resolved_url(popup_url[t][1], d)
        IN  /\ decoded_url' = [decoded_url EXCEPT ![t] = d]
            /\ popup_url' = [popup_url EXCEPT ![t] = Some(url)]
            /\ all_download_urls' =
                   [all_download_urls EXCEPT ![t] = Append(@, url)]
    /\ pc' = [pc EXCEPT ![t] = "popup_close"]
    /\ UNCHANGED <<outside_vars, semaphore, retry_count, download_pwd,
                   extract_pwd, buttons, pages, cancel>>

\* safe_close_page(new_popup_page) ends; the loop goes on
PopupClose(t) ==
    /\ At(t, "popup_close")
    /\ pc' = [pc EXCEPT ![t] = next_button(buttons[t])]
    /\ buttons' = [buttons EXCEPT ![t] = @ - 1]
    /\ pages' = [pages EXCEPT ![t] = @ \ {"popup"}]
    /\ popup_url' = [popup_url EXCEPT ![t] = None]
    /\ decoded_url' = [decoded_url EXCEPT ![t] = None]
    /\ UNCHANGED <<outside_vars, semaphore, retry_count, download_pwd,
                   extract_pwd, all_download_urls, cancel>>

\* the records put before the ones links holds
AccumulateFirst(t) ==
    /\ At(t, "close_main")
    /\ links' = new_links(items[t].name, items[t].url,
                          all_download_urls[t], download_pwd[t],
                          extract_pwd[t]) \o links
    /\ Leave(t, "done", {"primary"})
    /\ UNCHANGED <<store_vars, export_vars, run_vars, cancel>>

\* safe_close_page(page) ends; under links_lock the records are appended;
\* the call returns and the semaphore is released
Accumulate(t) ==
    /\ At(t, "close_main")
    /\ links' = links \o new_links(items[t].name, items[t].url,
                                   all_download_urls[t], download_pwd[t],
                                   extract_pwd[t])
    /\ Leave(t, "done", {"primary"})
    /\ UNCHANGED <<store_vars, export_vars, run_vars, cancel>>

\* safe_close_page(page) in the handler of the first click ends; reading
\* new_page raises UnboundLocalError, the outer handler logs it, the call
\* returns and the semaphore is released
HandlerClose(t) ==
    /\ At(t, "handler_close")
    /\ Leave(t, "failed", {"article"})
    /\ UNCHANGED <<outside_vars, cancel>>

\* the page close of the finally clause ends after a logged failure; the
\* call returns and the semaphore is released
FinallyClose(t) ==
    /\ At(t, "finally_close")
    /\ Leave(t, "failed", {"article", "primary"})
    /\ UNCHANGED <<outside_vars, cancel>>

\* ------------------------------------------------------------ interrupt

\* Ctrl-C while gather waits: asyncio.run cancels the main task, the
\* cancellation of gather cancels every task that has not ended
Interrupt ==
    /\ run_pc = "gather"
    /\ run_pc' = "cancelling"
    /\ cancel' = [t \in Tasks |-> pc[t] \notin Terminal]
    /\ UNCHANGED <<store_vars, export_vars, site, articles_file,
                   max_concurrent, items, retry_vars, qr_vars, semaphore,
                   links, pc, retry_count, download_pwd, extract_pwd, buttons,
                   all_download_urls, popup_url, decoded_url, pages>>

\* CancelledError is thrown into task t at the await it stands at.  It is a
\* BaseException: `except:` catches it, `except Exception` does not.
Cancelled(t) ==
    /\ cancel[t]
    /\ cancel' = [cancel EXCEPT ![t] = FALSE]
    /\ \/ \* waiting for the semaphore: the task ends
          /\ pc[t] = "queued"
          /\ pc' = [pc EXCEPT ![t] = "cancelled"]
          /\ UNCHANGED <<semaphore, pages>>
          /\ SameLocals
       \/ /\ pc[t] = "open"
          /\ \/ \* in new_page: the finally clause reads the unbound `page`,
                \* the UnboundLocalError is caught by the caller
                Leave(t, "failed", {})
             \/ \* in goto: the finally clause closes the page
                Moves(t, "cancel_close", {"article"})
       \/ \* in the first click: the bare except catches it
          /\ pc[t] = "primary"
          /\ \/ Moves(t, "handler_close", pages[t])
             \/ Moves(t, "retry_close", {"article", "primary"})
       \/ \* in one of the two closes of that handler: the second close is
          \* not made when the first is cut short
          /\ pc[t] = "retry_close"
          /\ \/ Leave(t, "cancelled", {"article"})
             \/ Leave(t, "cancelled", {"article", "primary"})
       \/ /\ pc[t] = "retry_sleep"
          /\ Leave(t, "cancelled", {})
       \/ \* in a close of the article page: `page` is still the article
          \* page in the finally clause
          /\ pc[t] \in {"handler_close", "close_article"}
          /\ Leave(t, "cancelled", {"article"})
       \/ \* in a password read: `except: pass` catches it, the call goes on
          /\ pc[t] = "download_pwd"
          /\ Moves(t, "extract_pwd", pages[t])
       \/ /\ pc[t] = "extract_pwd"
          /\ Moves(t, "locate", pages[t])
       \/ \* `except Exception` of the button loop does not catch it: the
          \* finally clause closes `page`, nothing closes an open popup
          /\ pc[t] \in {"locate", "button"}
          /\ Moves(t, "cancel_close", pages[t])
       \/ /\ pc[t] \in {"popup_load", "decode"}
          /\ Moves(t, "cancel_close",
                   (pages[t] \ {"popup"}) \cup {"abandoned_popup"})
       \/ /\ pc[t] = "popup_close"
          /\ Moves(t, "cancel_close", pages[t] \ {"popup"})
       \/ \* in the last close of `page`
          /\ pc[t] \in {"close_main", "finally_close"}
          /\ Leave(t, "cancelled", {"article", "primary"})
    /\ UNCHANGED outside_vars

\* the page close of the finally clause ends while CancelledError is on its
\* way out: the task ends cancelled and the semaphore is released
CancelClose(t) ==
    /\ At(t, "cancel_close")
    /\ Leave(t, "cancelled", {"article", "primary"})
    /\ UNCHANGED <<outside_vars, cancel>>

\* ---------------------------------------------------- the end of a run

gather_first_done(states) ==
    \E t \in DOMAIN states : states[t] \in Terminal

\* asyncio.gather has the result of every task
gather_done(states) ==
    \A t \in DOMAIN states : states[t] \in Terminal

\* what gather holds for a task that ended: process_with_semaphore returns
\* None whether process_single failed or not
gather_result(state) ==
    IF state = "cancelled" THEN "CancelledError" ELSE "None"

\* isinstance(result, Exception)
is_uncaught(result) == result \in ExceptionTypes

\* the number of "uncaught exception" lines produce() logs after gather, the
\* one place where it looks at how the tasks ended
uncaught_logged ==
    Cardinality({t \in Tasks : is_uncaught(gather_result(pc[t]))})

\* save_as_txt(path) on a store that exists
SaveAsTxt(file) ==
    \E order \in Orders(extract_pwd_set(file.data)) :
        /\ url_txt' = written_urls(url_txt, url_list(file.data))
        /\ pwd_txt' = written_pwds(pwd_txt, extract_pwd_set(file.data), order)

\* gather has every result: save(), then save_as_txt(pan_baidu_path), which
\* opens the primary-storage store for reading
FinishRun ==
    /\ run_pc = "gather"
    /\ gather_done(pc)
    /\ pan_baidu_file' = saved_pan_baidu(pan_baidu_file, links)
    /\ no_pan_baidu_file' = saved_no_pan_baidu(no_pan_baidu_file, links)
    /\ IF pan_baidu_file'.exists
       THEN /\ SaveAsTxt(pan_baidu_file')
            /\ run_pc' = "done"
       ELSE /\ UNCHANGED export_vars
            /\ run_pc' = "raised"
    /\ UNCHANGED <<site, articles_file, max_concurrent, items, retry_vars,
                   qr_vars, task_vars>>

\* every task has ended after the interrupt: gather raises CancelledError in
\* produce(), save() is not reached, run() logs the interrupt
AbortRun ==
    /\ run_pc = "cancelling"
    /\ gather_done(pc)
    /\ run_pc' = "interrupted"
    /\ UNCHANGED <<store_vars, export_vars, site, articles_file,
                   max_concurrent, items, retry_vars, qr_vars, task_vars>>

Next ==
    \/ StartRun
    \/ \E t \in Tasks : Acquire(t)
    \/ \E t \in Tasks : OpenPage(t)
    \/ \E t \in Tasks : PrimaryClick(t)
    \/ \E t \in Tasks : RetryClose(t)
    \/ \E t \in Tasks : RetrySleep(t)
    \/ \E t \in Tasks : CloseArticle(t)
    \/ \E t \in Tasks : ReadDownloadPwd(t)
    \/ \E t \in Tasks : ReadExtractPwd(t)
    \/ \E t \in Tasks : LocateButtons(t)
    \/ \E t \in Tasks : ClickButton(t)
    \/ \E t \in Tasks : PopupLoad(t)
    \/ \E t \in Tasks : Decode(t)
    \/ \E t \in Tasks : PopupClose(t)
    \/ \E t \in Tasks : Accumulate(t)
    \/ \E t \in Tasks : HandlerClose(t)
    \/ \E t \in Tasks : FinallyClose(t)
    \/ Interrupt
    \/ \E t \in Tasks : Cancelled(t)
    \/ \E t \in Tasks : CancelClose(t)
    \/ FinishRun
    \/ AbortRun

Spec == Init /\ [][Next]_vars

\* ------------------------------------------ the helpers, run on their own

\* no MhzxDownloader takes part
NoDownloader ==
    /\ site = SiteOneKind
    /\ articles_file = << >>
    /\ no_pan_baidu_file = AbsentFile
    /\ max_concurrent = 1
    /\ semaphore = 1
    /\ NoRun

\* -------- async_retry(max_retries=n)(func): one call of the wrapper

InitRetry ==
    /\ NoDownloader
    /\ pan_baidu_file = AbsentFile
    /\ url_txt = AbsentTxt
    /\ pwd_txt = AbsentTxt
    /\ run_pc = "unused"
    /\ QrUnused
    /\ wrapper_pc = "start"
    /\ wrapper_max_retries \in 0..MaxAttempts
    /\ attempt = 0
    /\ last_exception = None
    /\ actual_delay = 0
    /\ calls = 0
    /\ slept = 0
    /\ wrapper_cancel = FALSE
    /\ wrapper_outcome = None

not_retry_vars ==
    <<store_vars, export_vars, site, articles_file, max_concurrent, items,
      run_pc, qr_vars, task_vars>>

Returns(value) == Some([how |-> "return", what |-> value])
Raises(error) == Some([how |-> "raise", what |-> error])

\* last_exception = None; for attempt in range(max_retries): the first
\* invocation of func, or for max_retries = 0 the `raise last_exception` after
\* the loop, which raises TypeError as last_exception is None
WrapperStart ==
    /\ wrapper_pc = "start"
    /\ IF wrapper_max_retries > 0
       THEN /\ wrapper_pc' = "call"
            /\ calls' = 1
            /\ UNCHANGED wrapper_outcome
       ELSE /\ wrapper_pc' = "raised"
            /\ wrapper_outcome' = Raises(TypeError)
            /\ UNCHANGED calls
    /\ UNCHANGED <<not_retry_vars, wrapper_max_retries, attempt,
                   last_exception, actual_delay, slept, wrapper_cancel>>

\* return await func(*args, **kwargs): func returned
FuncReturns ==
    /\ wrapper_pc = "call"
    /\ ~wrapper_cancel
    /\ wrapper_pc' = "returned"
    /\ wrapper_outcome' = Returns([type |-> "result", call |-> calls])
    /\ UNCHANGED <<not_retry_vars, wrapper_max_retries, attempt,
                   last_exception, actual_delay, calls, slept, wrapper_cancel>>

\* `error` leaves func: the except clause, when it matches, keeps it and
\* either begins the backoff sleep or raises it
Raised(error) ==
    IF retryable(error)
    THEN /\ last_exception' = Some(error)
         /\ IF backoff_due(attempt, wrapper_max_retries)
            THEN /\ \E d \in actual_delays(attempt) : actual_delay' = d
                 /\ slept' = slept + 1
                 /\ wrapper_pc' = "sleep"
                 /\ UNCHANGED wrapper_outcome
            ELSE /\ wrapper_pc' = "raised"
                 /\ wrapper_outcome' = Raises(error)
                 /\ UNCHANGED <<actual_delay, slept>>
    ELSE /\ wrapper_pc' = "raised"
         /\ wrapper_outcome' = Raises(error)
         /\ UNCHANGED <<last_exception, actual_delay, slept>>

\* func raised an Exception
FuncRaises ==
    /\ wrapper_pc = "call"
    /\ ~wrapper_cancel
    /\ \E type \in ExceptionTypes : Raised([type |-> type, call |-> calls])
    /\ UNCHANGED <<not_retry_vars, wrapper_max_retries, attempt, calls,
                   wrapper_cancel>>

\* asyncio.sleep(actual_delay) ends: the next pass of the loop invokes func,
\* or the loop is over and line 42 raises last_exception
SleepEnds ==
    /\ wrapper_pc = "sleep"
    /\ ~wrapper_cancel
    /\ IF attempt + 1 < wrapper_max_retries
       THEN /\ attempt' = attempt + 1
            /\ calls' = calls + 1
            /\ wrapper_pc' = "call"
            /\ UNCHANGED wrapper_outcome
       ELSE /\ wrapper_pc' = "raised"
            /\ wrapper_outcome' = Raises(last_exception[1])
            /\ UNCHANGED <<attempt, calls>>
    /\ UNCHANGED <<not_retry_vars, wrapper_max_retries, last_exception,
                   actual_delay, slept, wrapper_cancel>>

\* the task that runs the wrapper is cancelled while it waits for func or
\* for the sleep
WrapperCancel ==
    /\ wrapper_pc \in {"call", "sleep"}
    /\ ~wrapper_cancel
    /\ wrapper_cancel' = TRUE
    /\ UNCHANGED <<not_retry_vars, wrapper_pc, wrapper_max_retries, attempt,
                   last_exception, actual_delay, calls, slept, wrapper_outcome>>

\* CancelledError is thrown at the await: out of func (which lets it pass)
\* into the try of the wrapper, or out of the sleep, which is in the except
\* clause and so in no try
WrapperCancelled ==
    /\ wrapper_cancel
    /\ wrapper_cancel' = FALSE
    /\ IF wrapper_pc = "call"
       THEN Raised(CancelledError)
       ELSE /\ wrapper_pc' = "raised"
            /\ wrapper_outcome' = Raises(CancelledError)
            /\ UNCHANGED <<last_exception, actual_delay, slept>>
    /\ UNCHANGED <<not_retry_vars, wrapper_max_retries, attempt, calls>>

NextRetry ==
    \/ WrapperStart
    \/ FuncReturns
    \/ FuncRaises
    \/ SleepEnds
    \/ WrapperCancel
    \/ WrapperCancelled

SpecRetry == InitRetry /\ [][NextRetry]_vars

\* -------- _process_qr_image(img_data): one call

InitQr ==
    /\ NoDownloader
    /\ pan_baidu_file = AbsentFile
    /\ url_txt = AbsentTxt
    /\ pwd_txt = AbsentTxt
    /\ run_pc = "unused"
    /\ RetryUnused
    /\ qr_input \in QrInputs
    /\ qr_pc = "start"
    /\ qr_index = 0
    /\ qr_result = None

not_qr_vars ==
    <<store_vars, export_vars, site, articles_file, max_concurrent, items,
      run_pc, retry_vars, task_vars>>

\* cv2.imdecode, then the list `methods` is built: when imdecode gives None
\* or anything here raises, the function returns None
QrPrepare ==
    /\ qr_pc = "start"
    /\ IF qr_input.decoded /\ qr_input.prepared
       THEN /\ qr_pc' = "loop"
            /\ qr_index' = 1
       ELSE /\ qr_pc' = "returned"
            /\ UNCHANGED qr_index
    /\ UNCHANGED <<not_qr_vars, qr_input, qr_result>>

\* one pass of `for i, proc in enumerate(methods)`
QrTry ==
    /\ qr_pc = "loop"
    /\ LET outcome == qr_input.outcome[methods[qr_index]]
       IN  IF yields_text(outcome)
           THEN /\ qr_result' = Some(outcome.data)
                /\ qr_pc' = "returned"
                /\ UNCHANGED qr_index
           ELSE IF qr_index < Len(methods)
           THEN /\ qr_index' = qr_index + 1
                /\ UNCHANGED <<qr_pc, qr_result>>
           ELSE /\ qr_pc' = "returned"
                /\ UNCHANGED <<qr_index, qr_result>>
    /\ UNCHANGED <<not_qr_vars, qr_input>>

NextQr ==
    \/ QrPrepare
    \/ QrTry

SpecQr == InitQr /\ [][NextQr]_vars

\* -------- save_as_txt(path): called on a store, and called once more

\* the records a primary-storage store may hold
ExportRecords ==
    {[name |-> NameA, article_url |-> ArticleA.url, download_url |-> u,
      download_pwd |-> None, extract_pwd |-> p] :
        u \in {UrlBaidu, UrlBaiduPwd},
        p \in {None, Some(<< >>), Some(<<"xp">>), Some(<<"xq">>)}}

ExportStores ==
    {AbsentFile}
    \cup {[exists |-> TRUE, data |-> d] :
             d \in UNION {[1..n -> ExportRecords] : n \in 0..ExportLen}}

InitExport ==
    /\ NoDownloader
    /\ pan_baidu_file \in ExportStores
    /\ url_txt \in StaleTxt
    /\ pwd_txt \in StaleTxt
    /\ run_pc = "export"
    /\ RetryUnused
    /\ QrUnused

\* save_as_txt(pan_baidu_path): open() raises when the store is absent
SaveAsTxtCall ==
    /\ run_pc \in {"export", "exported"}
    /\ IF pan_baidu_file.exists
       THEN /\ SaveAsTxt(pan_baidu_file)
            /\ run_pc' = IF run_pc = "export" THEN "exported"
                         ELSE "exported_again"
       ELSE /\ UNCHANGED export_vars
            /\ run_pc' = "export_raised"
    /\ UNCHANGED <<store_vars, site, articles_file, max_concurrent, items,
                   retry_vars, qr_vars, task_vars>>

NextExport == SaveAsTxtCall

SpecExport == InitExport /\ [][NextExport]_vars


\* -------- the batch from the last close of the main page on

\* the addresses a call may hold when it has left the button loop
CollectedUrls ==
    UNION {[1..n -> {UrlBaidu, UrlOther}] : n \in 0..MaxButtons}

\* Every task of the batch is past the semaphore and has left the button
\* loop; each awaits safe_close_page(page) before it takes links_lock.
InitAccumulate ==
    /\ site = SiteAllKinds
    /\ articles_file \in Batches
    /\ pan_baidu_file = AbsentFile
    /\ no_pan_baidu_file = AbsentFile
    /\ url_txt = AbsentTxt
    /\ pwd_txt = AbsentTxt
    /\ max_concurrent \in 1..MaxConcurrent
    /\ Len(articles_file) <= max_concurrent
    /\ semaphore = max_concurrent - Len(articles_file)
    /\ links = << >>
    /\ items = articles_file
    /\ pc = [t \in 1..Len(articles_file) |-> "close_main"]
    /\ retry_count = [t \in 1..Len(articles_file) |-> 0]
    /\ download_pwd = [t \in 1..Len(articles_file) |-> Some(<<"pw">>)]
    /\ extract_pwd = [t \in 1..Len(articles_file) |-> None]
    /\ buttons = [t \in 1..Len(articles_file) |-> 0]
    /\ all_download_urls \in [1..Len(articles_file) -> CollectedUrls]
    /\ popup_url = [t \in 1..Len(articles_file) |-> None]
    /\ decoded_url = [t \in 1..Len(articles_file) |-> None]
    /\ pages = [t \in 1..Len(articles_file) |-> {"primary"}]
    /\ cancel = [t \in 1..Len(articles_file) |-> FALSE]
    /\ run_pc = "gather"
    /\ RetryUnused
    /\ QrUnused

\* the tasks end in any order, completed or cut short by an interrupt;
\* produce() goes on when gather has them all
NextAccumulate ==
    \/ \E t \in Tasks : Accumulate(t)
    \/ Interrupt
    \/ \E t \in Tasks : Cancelled(t)
    \/ FinishRun
    \/ AbortRun

SpecAccumulate == InitAccumulate /\ [][NextAccumulate]_vars

\* -------- the run when every wait ends

\* one step of task t: the await it stands at ends, one way or another
TaskStep(t) ==
    /\ t \in Tasks
    /\ \/ Acquire(t)
       \/ OpenPage(t)
       \/ PrimaryClick(t)
       \/ RetryClose(t)
       \/ RetrySleep(t)
       \/ CloseArticle(t)
       \/ ReadDownloadPwd(t)
       \/ ReadExtractPwd(t)
       \/ LocateButtons(t)
       \/ ClickButton(t)
       \/ PopupLoad(t)
       \/ Decode(t)
       \/ PopupClose(t)
       \/ Accumulate(t)
       \/ HandlerClose(t)
       \/ FinallyClose(t)
       \/ Cancelled(t)
       \/ CancelClose(t)

\* The event loop runs every callback that is ready: a task whose await has
\* ended goes on, the semaphore wakes its first waiter when a slot is free,
\* and produce() goes on when gather has every result.  Every page
\* operation has a timeout and asyncio.sleep(2) ends, so every await ends.
EveryWaitEnds ==
    /\ WF_vars(StartRun)
    /\ \A t \in 1..MaxBatch : WF_vars(TaskStep(t))
    /\ WF_vars(FinishRun)

\* the run that nobody interrupts
NextUninterrupted ==
    \/ StartRun
    \/ \E t \in Tasks : Acquire(t)
    \/ \E t \in Tasks : OpenPage(t)
    \/ \E t \in Tasks : PrimaryClick(t)
    \/ \E t \in Tasks : RetryClose(t)
    \/ \E t \in Tasks : RetrySleep(t)
    \/ \E t \in Tasks : CloseArticle(t)
    \/ \E t \in Tasks : ReadDownloadPwd(t)
    \/ \E t \in Tasks : ReadExtractPwd(t)
    \/ \E t \in Tasks : LocateButtons(t)
    \/ \E t \in Tasks : ClickButton(t)
    \/ \E t \in Tasks : PopupLoad(t)
    \/ \E t \in Tasks : Decode(t)
    \/ \E t \in Tasks : PopupClose(t)
    \/ \E t \in Tasks : Accumulate(t)
    \/ \E t \in Tasks : HandlerClose(t)
    \/ \E t \in Tasks : FinallyClose(t)
    \/ FinishRun

SpecEveryWaitEnds == Init /\ [][NextUninterrupted]_vars /\ EveryWaitEnds
\* ------------------------------------------------------- for the claims

Count(x, seq) == Cardinality({i \in 1..Len(seq) : seq[i] = x})

\* seq from position from + 1 on
After(seq, from) == SubSeq(seq, from + 1, Len(seq))

IsBlockOf(block, seq) ==
    \E from \in 0..(Len(seq) - Len(block)) :
        SubSeq(seq, from + 1, from + Len(block)) = block

RunEnded == run_pc \in {"done", "raised"}

ActiveTasks == {t \in Tasks : InSemaphore(t)}

\* the dedup key of a name
DedupKey(name) == StripPartSuffix(name)

StoreKeys(file) == {DedupKey(r.name) : r \in Range(file.data)}

HasBaiduAddress(r) == \E i \in 1..Len(r.download_url) : r.download_url[i] = BaiduMark

\* the records a task that completed produces on its own
OwnRecords(t) ==
    new_links(items[t].name, items[t].url, all_download_urls[t],
              download_pwd[t], extract_pwd[t])

RECURSIVE CapturedUpTo(_)
CapturedUpTo(n) ==
    IF n = 0 THEN 0
    ELSE CapturedUpTo(n - 1)
         + (IF pc[n] = "done" THEN Len(all_download_urls[n]) ELSE 0)

\* task t ends in this step, completed or failed
Completes(t) == pc[t] # "done" /\ pc'[t] = "done"
Fails(t) == pc[t] # "failed" /\ pc'[t] = "failed"

\* C1: at most max_concurrent article resolutions are past the semaphore at
\* the same time.
C1_AtMostNInSemaphore == Cardinality(ActiveTasks) <= max_concurrent

\* C1 witness: the bound is reached and holds a further article back.
C1_Witness ==
    /\ Cardinality(ActiveTasks) = max_concurrent
    /\ \E t \in Tasks : pc[t] = "queued"

\* C2 (as claimed): when some articles of a batch fail terminally, the run
\* ends without raising and the accumulator holds exactly the records of the
\* articles that completed, each article's records as it produces them alone.
C2_Isolation ==
    (RunEnded /\ \E t \in Tasks : pc[t] = "failed") =>
        /\ run_pc = "done"
        /\ Len(links) = CapturedUpTo(Len(items))
        /\ \A t \in Tasks : pc[t] = "done" => IsBlockOf(OwnRecords(t), links)

\* C3 (as claimed): a first click that yields no popup has its sessions
\* closed and is retried while retry_count < max_retries; the article fails
\* only once the retries are used up.
C3_NoPopupIsRetried ==
    [][\A t \in Tasks :
          (pc[t] = "handler_close" /\ pc'[t] # "handler_close") =>
              /\ pages'[t] = {}
              /\ IF retry_count[t] < max_retries
                 THEN pc'[t] = "retry_sleep"
                 ELSE pc'[t] = "failed"]_vars

\* C4 (as claimed): an article whose first click fails on fewer than
\* max_retries attempts is not ended by those failures, a failed attempt adds
\* no record, and the completed resolution adds its records once.
C4_OneOutcomeAfterFailedAttempts ==
    [][\A t \in Tasks :
          /\ (pc[t] \in {"handler_close", "retry_close"}
                 /\ retry_count[t] + 1 < max_retries) => ~Fails(t)
          /\ Fails(t) => links' = links
          /\ Completes(t) =>
                 Len(links') = Len(links) + Len(all_download_urls[t])]_vars

\* C5 (as claimed, for the re-run of an article): an article is not
\* scheduled when a store file holds a record of that article with the
\* article's dedup key.
C5_IdempotentSkip ==
    run_pc = "gather" =>
        \A t \in Tasks :
            \A r \in Range(pan_baidu_file.data) \cup Range(no_pan_baidu_file.data) :
                ~(/\ r.article_url = items[t].url
                  /\ DedupKey(r.name) = DedupKey(items[t].name))

\* C6 (as claimed): no two records across the two store files have the same
\* name.
C6_NoDuplicateNames ==
    LET stored == pan_baidu_file.data \o no_pan_baidu_file.data
    IN  \A i, j \in 1..Len(stored) : stored[i].name = stored[j].name => i = j

\* C7 (as claimed, for the records a run adds for one article): records of
\* the same article and dedup key are not spread over both store files.
C7_KeyInOneStore ==
    RunEnded =>
        \A r1, r2 \in Range(links) :
            (/\ r1.article_url = r2.article_url
             /\ DedupKey(r1.name) = DedupKey(r2.name))
                => ~(/\ r1 \in Range(pan_baidu_file.data)
                     /\ r2 \in Range(no_pan_baidu_file.data))

\* C7 (amended): a dedup key occurs in both store files only if its records
\* have addresses of both kinds, some with the primary-storage domain and
\* some without.
C7_KeyInOneStoreUnlessMixed ==
    \A k \in StoreKeys(pan_baidu_file) \cap StoreKeys(no_pan_baidu_file) :
        LET recs == {r \in Range(pan_baidu_file.data)
                              \cup Range(no_pan_baidu_file.data) :
                        DedupKey(r.name) = k}
        IN  /\ \E r \in recs : HasBaiduAddress(r)
            /\ \E r \in recs : ~HasBaiduAddress(r)

\* C7 witness: after a run that added several records of one article, their
\* key is in the primary-storage store only.
C7_Witness ==
    /\ run_pc = "done"
    /\ Len(links) > 1
    /\ \E k \in StoreKeys(pan_baidu_file) :
          /\ k \notin StoreKeys(no_pan_baidu_file)
          /\ k = DedupKey(links[1].name)

\* C8: save() appends every accumulated record to exactly one store file,
\* the primary-storage store iff its address contains the domain marker.
C8_PartitionCorrect ==
    [][(run_pc = "gather" /\ run_pc' \in {"done", "raised"}) =>
          LET new_pan == After(pan_baidu_file'.data, Len(pan_baidu_file.data))
              new_no == After(no_pan_baidu_file'.data,
                              Len(no_pan_baidu_file.data))
          IN  /\ Len(new_pan) + Len(new_no) = Len(links)
              /\ \A r \in Range(links) :
                    /\ Count(r, new_pan) + Count(r, new_no) = Count(r, links)
                    /\ (r \in Range(new_pan)) <=> HasBaiduAddress(r)
                    /\ (r \in Range(new_no)) <=> ~HasBaiduAddress(r)]_vars

\* C8 witness: a run has saved records of both kinds.
C8_Witness ==
    /\ run_pc = "done"
    /\ \E r \in Range(links) : HasBaiduAddress(r)
    /\ \E r \in Range(links) : ~HasBaiduAddress(r)
    /\ \A r \in Range(links) :
          r \in Range(pan_baidu_file.data) \cup Range(no_pan_baidu_file.data)

\* C9: an article that captured k addresses appends k records; for k > 1
\* they are named base_part1 .. base_partk in order of capture and each name
\* strips back to base; for k = 1 the record is named base.
C9_MultiTargetNaming ==
    [][\A t \in Tasks :
          Completes(t) =>
              LET k == Len(all_download_urls[t])
                  base == items[t].name
                  recs == After(links', Len(links))
              IN  /\ Len(recs) = k
                  /\ k = 1 => recs[1].name = base
                  /\ k > 1 =>
                        \A i \in 1..k :
                            /\ recs[i].name = base \o <<PartMark, Digits[i + 1]>>
                            /\ StripPartSuffix(recs[i].name) = base]_vars

\* C9 witness: an article with several addresses has completed.
C9_Witness ==
    \E t \in Tasks :
        /\ pc[t] = "done"
        /\ Len(all_download_urls[t]) > 1
        /\ items[t].name = NameAPart1

\* C10: the stored address is address + "?pwd=" + password when the address
\* has the primary-storage domain, has no "?pwd=" and the download password
\* is known and not empty; otherwise it is the address unchanged; rewriting
\* a stored address again changes nothing.
C10_CredentialPropagation ==
    [][\A t \in Tasks :
          Completes(t) =>
              LET pwd == download_pwd[t]
                  recs == After(links', Len(links))
              IN  \A i \in 1..Len(recs) :
                      LET url == all_download_urls[t][i]
                          stored == recs[i].download_url
                          known == pwd # None /\ Len(pwd[1]) > 0
                          rewritten ==
                              /\ \E j \in 1..Len(url) : url[j] = BaiduMark
                              /\ \A j \in 1..Len(url) : url[j] # PwdMark
                              /\ known
                      IN  /\ rewritten => stored = url \o <<PwdMark>> \o pwd[1]
                          /\ ~rewritten => stored = url
                          /\ embed_pwd(stored, pwd) = stored]_vars

\* C10 witness: a record whose address had the password embedded.
C10_Witness ==
    \E r \in Range(links) :
        r.download_url = UrlBaidu \o <<PwdMark, "pw">>


\* the awaits of one pass of the button loop
ButtonSteps == {"button", "popup_load", "decode", "popup_close"}

C12_NoSessionLeak ==
    \A t \in Tasks : pc[t] \in Terminal => pages[t] = {}

\* C13: the store files change only in the step in which produce(), with
\* every task ended, runs save(); and once an interrupt has been delivered
\* that step is never taken, so both store files stay as the run found them.
C13_StoresWrittenAfterBatch ==
    [][/\ (store_vars' # store_vars) =>
              /\ run_pc = "gather"
              /\ run_pc' = "done"
              /\ \A t \in Tasks : pc[t] \in Terminal
       /\ (run_pc \in {"cancelling", "interrupted"}) =>
              /\ run_pc' \in {"cancelling", "interrupted"}
              /\ store_vars' = store_vars]_vars

\* C13 witness: an interrupted run has ended with a task cancelled and
\* records accumulated, and no store file was written.
C13_Witness ==
    /\ run_pc = "interrupted"
    /\ links # << >>
    /\ \E t \in Tasks : pc[t] = "cancelled"
    /\ pan_baidu_file = AbsentFile
    /\ no_pan_baidu_file = AbsentFile

\* C17 (as claimed): when produce() has finished a batch, the number it
\* reports for failures is the number of articles that ended in terminal
\* failure.
C17_FailureCountReported ==
    run_pc = "done" =>
        uncaught_logged = Cardinality({t \in Tasks : pc[t] = "failed"})

\* C18 (as claimed): a task to which the cancellation of an interrupt has
\* been delivered opens no session and does not try the article again.
C18_NoNewSessionAfterInterrupt ==
    [][\A t \in Tasks :
          (run_pc = "cancelling" /\ ~cancel[t]) =>
              /\ pages'[t] \subseteq pages[t]
              /\ ~(pc[t] = "retry_sleep" /\ pc'[t] = "open")]_vars

\* C19: a button whose click, popup or popup load fails is skipped, the
\* article is not aborted and its addresses stay as they are; a button that
\* succeeds appends its address at the end; nothing else changes the
\* addresses, so they are those of the buttons that succeeded, in button
\* order.
C19_PerButtonIsolation ==
    [][\A t \in Tasks :
          LET in_loop == pc[t] \in ButtonSteps /\ ~cancel[t]
              skipped == /\ in_loop
                         /\ pc[t] \in {"button", "popup_load"}
                         /\ buttons'[t] # buttons[t]
              captured == /\ in_loop
                          /\ pc[t] \in {"popup_load", "decode"}
                          /\ pc'[t] = "popup_close"
          IN  /\ in_loop => pc'[t] \in ButtonSteps \cup {"close_main"}
              /\ skipped =>
                    /\ buttons'[t] = buttons[t] - 1
                    /\ pc'[t] = IF buttons[t] > 1 THEN "button"
                                ELSE "close_main"
              /\ captured =>
                    all_download_urls'[t] =
                        Append(all_download_urls[t], popup_url'[t][1])
              /\ (in_loop /\ ~captured) =>
                    all_download_urls'[t] = all_download_urls[t]]_vars

\* C19 witness: an article completed with an address although the popup of
\* one of its buttons failed to load.
C19_Witness ==
    \E t \in Tasks :
        /\ pc[t] = "done"
        /\ "abandoned_popup" \in pages[t]
        /\ Len(all_download_urls[t]) >= 1

\* C14: for max_retries = n >= 1, func is invoked at most n times; a result
\* returned is that of the last invocation made and nothing is invoked after
\* it; an Exception that leaves the wrapper is the one the n-th invocation
\* raised; a sleep is begun only with an invocation still to come, so there
\* is one sleep less than invocations whenever the wrapper is not sleeping.
C14_RetryPolicy ==
    /\ [](wrapper_max_retries >= 1 =>
            /\ calls <= wrapper_max_retries
            /\ (wrapper_pc = "returned") =>
                   /\ wrapper_outcome =
                          Returns([type |-> "result", call |-> calls])
                   /\ slept = calls - 1
            /\ (wrapper_pc = "raised"
                   /\ wrapper_outcome[1].what.type \in ExceptionTypes) =>
                   /\ calls = wrapper_max_retries
                   /\ wrapper_outcome[1].what.call = wrapper_max_retries
                   /\ wrapper_outcome = Raises(last_exception[1])
                   /\ slept = calls - 1
            /\ (wrapper_pc = "sleep") =>
                   /\ calls < wrapper_max_retries
                   /\ slept = calls
            /\ (wrapper_pc = "call") => slept = calls - 1)
    /\ [][/\ wrapper_pc \in {"returned", "raised"} => calls' = calls
          /\ (wrapper_pc = "sleep" /\ wrapper_pc' # "sleep") =>
                 \/ wrapper_pc' = "call" /\ calls' = calls + 1
                 \/ wrapper_outcome' = Raises(CancelledError)]_vars

\* C14 witness: every one of several invocations failed and the last error
\* left the wrapper.
C14_Witness ==
    /\ wrapper_pc = "raised"
    /\ wrapper_max_retries > 1
    /\ calls = wrapper_max_retries
    /\ wrapper_outcome[1].what.type = "TimeoutError"

\* C15: a cancellation delivered while func runs or while the wrapper sleeps
\* leaves the wrapper as CancelledError, and func is not invoked again.
C15_CancellationPropagates ==
    [][wrapper_cancel =>
          /\ wrapper_pc' = "raised"
          /\ wrapper_outcome' = Raises(CancelledError)
          /\ calls' = calls]_vars

\* C15 witness: the wrapper was cancelled in a backoff sleep with
\* invocations still to come.
C15_Witness ==
    /\ wrapper_outcome = Raises(CancelledError)
    /\ slept = calls
    /\ calls < wrapper_max_retries

\* C16: a call of save_as_txt changes neither store file, and a second call
\* on the unchanged store leaves the address export as the first call left
\* it and the password export with the same set of lines.
C16_PureProjection ==
    [][/\ store_vars' = store_vars
       /\ run_pc = "exported" =>
              /\ url_txt' = url_txt
              /\ pwd_txt'.exists = pwd_txt.exists
              /\ Range(pwd_txt'.lines) = Range(pwd_txt.lines)]_vars

\* C16 witness: save_as_txt ran twice on a store with two addresses and two
\* passwords.
C16_Witness ==
    /\ run_pc = "exported_again"
    /\ Len(url_txt.lines) = 2
    /\ Len(pwd_txt.lines) = 2

\* the variants in the order the claim gives: grayscale, median blur,
\* adaptive threshold, Gaussian blur with global threshold, morphological
\* close
VariantOrder ==
    <<"img_gray", "medianBlur", "adaptiveThreshold", "GaussianBlur_threshold",
      "morphologyEx">>

C21_AccumulatorOrder ==
    /\ [](\A t \in Tasks :
             pc[t] = "done" => IsBlockOf(OwnRecords(t), links))
    /\ [][links' # links =>
            \E t \in Tasks :
                /\ Completes(t)
                /\ \A u \in Tasks \ {t} : pc'[u] = pc[u]
                /\ SubSeq(links', 1, Len(links)) = links
                /\ After(links', Len(links)) = OwnRecords(t)
                /\ \A i \in 1..Len(all_download_urls[t]) :
                      /\ links'[Len(links) + i].article_url = items[t].url
                      /\ SubSeq(links'[Len(links) + i].download_url, 1,
                                Len(all_download_urls[t][i]))
                            = all_download_urls[t][i]]_vars

\* C21 witness: two articles with several addresses each have completed, the
\* second of the input first.
C21_Witness ==
    /\ Len(items) > 1
    /\ pc[1] = "done"
    /\ pc[2] = "done"
    /\ Len(all_download_urls[1]) > 1
    /\ Len(all_download_urls[2]) > 1
    /\ links[1].article_url = items[2].url
    /\ links[Len(links)].article_url = items[1].url

LacksBaiduAddress(r) == ~HasBaiduAddress(r)

\* the records of `after` are those of `before`, in place, followed by `new`
AppendedTo(before, new, after) ==
    /\ Len(after) = Len(before) + Len(new)
    /\ SubSeq(after, 1, Len(before)) = before
    /\ After(after, Len(before)) = new

\* C22: the store files change only when save() runs with new records; each
\* file then holds the records it held, unchanged and in place, followed by
\* the new records of its partition in the order of links.  A run without
\* new records leaves both files as they are.
C22_AppendOnly ==
    [][/\ links = << >> => UNCHANGED store_vars
       /\ store_vars' # store_vars =>
            /\ run_pc = "gather"
            /\ run_pc' \in {"done", "raised"}
            /\ AppendedTo(pan_baidu_file.data,
                          SelectSeq(links, HasBaiduAddress),
                          pan_baidu_file'.data)
            /\ AppendedTo(no_pan_baidu_file.data,
                          SelectSeq(links, LacksBaiduAddress),
                          no_pan_baidu_file'.data)]_vars

\* C22 witness: a run over stores an earlier run left has saved records of
\* both partitions, the primary-storage one accumulated last.
C22_Witness ==
    /\ run_pc = "done"
    /\ Len(links) > 1
    /\ LacksBaiduAddress(links[1])
    /\ HasBaiduAddress(links[Len(links)])
    /\ Len(pan_baidu_file.data) > 1
    /\ pan_baidu_file.data[1] \notin Range(links)
    /\ pan_baidu_file.data[Len(pan_baidu_file.data)] = links[Len(links)]
    /\ no_pan_baidu_file.data = <<links[1]>>

\* C23: when every wait ends and nobody interrupts the run, produce() ends;
\* by then every article of the filtered batch has got past the semaphore
\* and its call has ended, completed (with or without addresses) or failed,
\* and every slot of the semaphore is free.  A call ends only past the
\* semaphore, and the free slots are always those no running call holds.
C23_BatchTerminates ==
    /\ (run_pc = "gather") ~> RunEnded
    /\ [](RunEnded =>
            /\ semaphore = max_concurrent
            /\ \A t \in Tasks : pc[t] \in {"done", "failed"})
    /\ [](semaphore = max_concurrent - Cardinality(ActiveTasks))
    /\ [][\A t \in Tasks :
            (pc[t] \notin Terminal /\ pc'[t] \in Terminal)
                => (InSemaphore(t) /\ semaphore' = semaphore + 1)]_vars
    /\ [][\A t \in Tasks :
            pc[t] = "queued" /\ pc'[t] # "queued"
                => (semaphore > 0 /\ pc'[t] = "open")]_vars

\* C23 witness: a batch larger than the number of slots has ended, one
\* article completed and one failed.
C23_Witness ==
    /\ run_pc \in {"done", "raised"}
    /\ Len(items) > max_concurrent
    /\ semaphore = max_concurrent
    /\ \E t \in Tasks : pc[t] = "done"
    /\ \E t \in Tasks : pc[t] = "failed"

\* the extraction passwords of the records that are neither None nor ""
NonEmptyPwds(data) ==
    {r.extract_pwd[1] :
        r \in {q \in Range(data) :
                  q.extract_pwd # None /\ q.extract_pwd # Some(<< >>)}}

\* C24: after a run that completed, the address export has one line for
\* each record of the primary-storage store, its download_url, in store
\* order (no line when the store is empty; an export that was never written
\* has no line); the lines of the password export are the distinct
\* non-empty extract_pwd of those records, each once, none of them empty.
C24_ExportContent ==
    run_pc = "done" =>
        /\ Len(url_txt.lines) = Len(pan_baidu_file.data)
        /\ \A i \in 1..Len(pan_baidu_file.data) :
              url_txt.lines[i] = pan_baidu_file.data[i].download_url
        /\ Range(pwd_txt.lines) = NonEmptyPwds(pan_baidu_file.data)
        /\ Len(pwd_txt.lines) = Cardinality(NonEmptyPwds(pan_baidu_file.data))
        /\ \A i \in 1..Len(pwd_txt.lines) : pwd_txt.lines[i] # << >>
====
